---- MODULE Spec2Model ----
(***************************************************************************)
(* Garak-MCP: a model of the Tool Facade (src/server.py), the Model        *)
(* Catalog and Dialect Resolver (src/config.py) and the helpers of         *)
(* src/utils.py.                                                           *)
(*                                                                         *)
(* Text is a sequence of code points.  An optional value (None or a value) *)
(* is a sequence of length 0 or 1.  The remote servers and the external    *)
(* process are the environment: what they answer is drawn from bounded     *)
(* sets.  requests is taken at a version (>= 2.27) whose Response.json()   *)
(* raises requests.exceptions.JSONDecodeError, a RequestException.         *)
(***************************************************************************)
EXTENDS Integers, Sequences, FiniteSets, TLC

VARIABLES
    pc,             \* position of the call under way: "called" or "done"
    call,           \* the operation called and its inputs
    result,         \* what the call returned or raised
    idx,            \* index of the next candidate endpoint of the loop under way
    http_log,       \* the HTTP requests made by the call, each with its answer
    lister_calls,   \* the model-lister functions the call has invoked, in order
    popen_count,    \* number of subprocess.Popen calls made by the call
    environ,        \* the process environment the server was started with
    attack,         \* per RPC caller: the run_attack call under way and its locals
    disk,           \* the temporary generator-config files that exist
    next_tmp,       \* names the next file of tempfile.NamedTemporaryFile
    calls_begun,    \* number of run_attack calls begun
    model_config,   \* the ModelConfig object under way, None while there is none
    cached_probes,  \* _cached_probes of the GarakServer made last
    probe_log,      \* the answers of the list_garak_probes RPC calls so far
    os_name,        \* the platform, which decides what os.path.getctime reads
    reports,        \* the .jsonl files of REPORT_DIR with their times
    clock,          \* the file system's time
    report_result   \* the answer of the last get_report RPC call

\* The state of the server across RPC calls, and that of one library call.
config_vars == <<model_config, cached_probes, probe_log>>
report_vars == <<os_name, reports, clock, report_result>>
server_vars == <<environ, attack, disk, next_tmp, calls_begun, config_vars, report_vars>>
vars == <<pc, call, result, idx, http_log, lister_calls, popen_count, server_vars>>

None == <<>>
Some(x) == <<x>>

Callers == {"A", "B"}

\* run_attack's locals before a call and after its answer was delivered.
NoAttack ==
    [pc |-> "idle", model_type |-> "", config_file |-> None, generator |-> None,
     result |-> [raised |-> None, lines |-> <<>>, pid |-> None], wrote |-> None]

\* The names a report file of REPORT_DIR can have here; the second is the
\* one get_report falls back to (server.py:217).
ReportNames == {"run1.jsonl", "output.report.jsonl"}
NoReports == [n \in ReportNames |-> None]

\* No get_report call has answered yet.
NoReportYet == [called |-> FALSE, value |-> None, writer |-> None, after |-> {}]

\* The server part of the state while one library call is looked at alone.
ServerIdle ==
    /\ environ = [OPENAI_LIKE_API_URL |-> None, OPENAI_LIKE_API_KEY |-> None,
                  PARALLEL_ATTEMPTS |-> None]
    /\ attack = [c \in Callers |-> NoAttack]
    /\ disk = {}
    /\ next_tmp = 1
    /\ calls_begun = 0
    /\ model_config = None
    /\ cached_probes = None
    /\ probe_log = <<>>
    /\ os_name = "posix"
    /\ reports = NoReports
    /\ clock = 1
    /\ report_result = NoReportYet

\* ------------------------------------------------------------------ bounds
MaxTextLen == 4
MaxErrLen == 2
MaxItems == 1
MaxUrlLen == 2
MaxEnvLen == 2
MaxAttacks == 3

\* ------------------------------------------------------------- utils.py text
ESC == 27
LF == 10
SP == 32
LBRACKET == 91

\* The classes of ansi_escape: \x1B(?:[@-Z\\-_]|\[[0-?]*[ -/]*[@-~])
FeBytes == (64..90) \cup (92..95)
CsiParamBytes == 48..63
CsiIntermediateBytes == 32..47
CsiFinalBytes == 64..126

\* What str.strip() removes (the white space of ASCII and Latin-1).
Whitespace == {9, 10, 11, 12, 13, 28, 29, 30, 31, 32, 133, 160}

RECURSIVE SkipClass(_, _, _)
\* First index >= j of s whose code point is not in class (Len(s)+1 if none):
\* a greedy star; the three CSI classes are disjoint, so it never backtracks.
SkipClass(s, j, class) ==
    IF j <= Len(s) /\ s[j] \in class THEN SkipClass(s, j + 1, class) ELSE j

\* Length of the match of ansi_escape that starts at index i of s, 0 if none.
AnsiMatchLen(s, i) ==
    IF i + 1 > Len(s) \/ s[i] # ESC THEN 0
    ELSE IF s[i + 1] \in FeBytes THEN 2
    ELSE IF s[i + 1] # LBRACKET THEN 0
    ELSE LET j == SkipClass(s, SkipClass(s, i + 2, CsiParamBytes), CsiIntermediateBytes)
         IN  IF j <= Len(s) /\ s[j] \in CsiFinalBytes THEN j - i + 1 ELSE 0

RECURSIVE AnsiSubFrom(_, _)
\* re.sub: one left-to-right pass, the matches replaced by nothing.
AnsiSubFrom(s, i) ==
    IF i > Len(s) THEN <<>>
    ELSE LET n == AnsiMatchLen(s, i)
         IN  IF n > 0 THEN AnsiSubFrom(s, i + n)
             ELSE <<s[i]>> \o AnsiSubFrom(s, i + 1)

sanitize_output(text) == AnsiSubFrom(text, 1)

RECURSIVE LStrip(_)
LStrip(s) == IF s # <<>> /\ Head(s) \in Whitespace THEN LStrip(Tail(s)) ELSE s

RECURSIVE RStrip(_)
RStrip(s) ==
    IF s # <<>> /\ s[Len(s)] \in Whitespace THEN RStrip(SubSeq(s, 1, Len(s) - 1)) ELSE s

\* str.strip()
Strip(s) == RStrip(LStrip(s))

RECURSIVE SplitFrom(_, _, _, _)
\* str.split(sep): the segments between the separators, empty ones included.
SplitFrom(s, sep, i, cur) ==
    IF i > Len(s) THEN <<cur>>
    ELSE IF s[i] = sep THEN <<cur>> \o SplitFrom(s, sep, i + 1, <<>>)
    ELSE SplitFrom(s, sep, i + 1, Append(cur, s[i]))

\* stdout.split('\n')
SplitLines(s) == SplitFrom(s, LF, 1, <<>>)

\* The line kept from one segment of stdout (utils.py:221, the list element).
CleanLine(line) == sanitize_output(Strip(line))

RECURSIVE KeptLines(_)
\* [sanitize_output(line.strip()) for line in segs if line.strip()]
KeptLines(segs) ==
    IF segs = <<>> THEN <<>>
    ELSE IF Strip(Head(segs)) # <<>>
         THEN <<CleanLine(Head(segs))>> \o KeptLines(Tail(segs))
         ELSE KeptLines(Tail(segs))

\* The lines of the captured text that get_terminal_commands_output returns.
OutputLines(stdout, stderr) ==
    IF stdout # <<>> THEN KeptLines(SplitLines(stdout)) ELSE <<>>

RaisedResult(exc) == [raised |-> Some(exc), lines |-> <<>>, pid |-> None]
ReturnedResult(lines, pid) == [raised |-> None, lines |-> lines, pid |-> pid]

\* get_terminal_commands_output on a process given by what Popen does ("ok" or the
\* class of the exception it raises) and what communicate() hands back.
get_terminal_commands_output(proc) ==
    CASE proc.spawn = "ok" ->
            ReturnedResult(OutputLines(proc.stdout, proc.stderr), Some(proc.pid))
      [] proc.spawn = "SubprocessError" -> ReturnedResult(<<>>, None)
      [] OTHER -> RaisedResult(proc.spawn)

TextsUpTo(chars, n) == UNION {[1..k -> chars] : k \in 0..n}

StdoutChars == {ESC, LBRACKET, 48, SP, 109, LF}
StderrChars == {109, LF}

Processes ==
    [spawn : {"ok"}, stdout : TextsUpTo(StdoutChars, MaxTextLen),
     stderr : TextsUpTo(StderrChars, MaxErrLen), returncode : {0, 1}, pid : {4242}]
    \cup [spawn : {"SubprocessError", "OSError"}, stdout : {<<>>}, stderr : {<<>>},
          returncode : {0}, pid : {4242}]

InitTerminal ==
    /\ pc = "called"
    /\ call \in [op : {"get_terminal_commands_output"}, proc : Processes]
    /\ result = RaisedResult("none")
    /\ idx = 0
    /\ http_log = <<>>
    /\ lister_calls = <<>>
    /\ popen_count = 0
    /\ ServerIdle

GetTerminalCommandsOutput ==
    /\ pc = "called"
    /\ call.op = "get_terminal_commands_output"
    /\ result' = get_terminal_commands_output(call.proc)
    /\ popen_count' = popen_count + 1
    /\ pc' = "done"
    /\ UNCHANGED <<call, idx, http_log, lister_calls, server_vars>>

NextTerminal == GetTerminalCommandsOutput

SpecTerminal == InitTerminal /\ [][NextTerminal]_vars

\* ------------------------------------------------- claims on SpecTerminal
HasNoAnsi(s) == \A i \in 1..Len(s) : AnsiMatchLen(s, i) = 0

Range(s) == {s[i] : i \in 1..Len(s)}

\* "\x1b[31merror\x1b[0m line" and "error line"
AnsiExample ==
    <<27, 91, 51, 49, 109, 101, 114, 114, 111, 114, 27, 91, 48, 109, 32, 108, 105, 110, 101>>
AnsiExampleClean == <<101, 114, 114, 111, 114, 32, 108, 105, 110, 101>>

\* C8: every line get_terminal_commands_output returns is non-empty, has no
\* leading or trailing white space and holds no ANSI escape sequence, and the
\* example text "\x1b[31merror\x1b[0m line" yields the one line "error line".
C8_LinesCleanTrimmed ==
    /\ OutputLines(AnsiExample, <<>>) = <<AnsiExampleClean>>
    /\ (pc = "done" /\ result.raised = None) =>
          \A i \in 1..Len(result.lines) :
              /\ result.lines[i] # <<>>
              /\ Strip(result.lines[i]) = result.lines[i]
              /\ HasNoAnsi(result.lines[i])

\* C9: the returned lines are built from standard output and standard error
\* together, whatever the exit status: every non-blank line of the standard
\* error text is among them, and the process is spawned exactly once.
C9_StderrInLines ==
    (pc = "done" /\ call.proc.spawn = "ok") =>
        /\ popen_count = 1
        /\ result.raised = None
        /\ Range(KeptLines(SplitLines(call.proc.stderr))) \subseteq Range(result.lines)

\* C10: any failure to spawn the external process is swallowed: the call
\* returns an empty output sequence and no process identifier, and raises
\* nothing.
C10_SpawnFailureSwallowed ==
    (pc = "done" /\ call.proc.spawn # "ok") => result = ReturnedResult(<<>>, None)

\* ------------------------------------------------------------ URLs and JSON
\* A URL is a sequence of pieces; no marker the code looks for ("4000", "11434",
\* "litellm", "ollama") lies inside a piece or across two, so `marker in url` is
\* membership of the piece.
UrlTokens == {"/", "v2", "4000", "11434", "LiteLLM", "litellm", "ollama"}
PlainUrlTokens == {"/", "v2"}

\* The URLs "http://host" followed by at most MaxUrlLen pieces.
BaseUrls(tokens) == {<<"http://host">> \o t : t \in TextsUpTo(tokens, MaxUrlLen)}

Contains(url, marker) == \E i \in 1..Len(url) : url[i] = marker

LowerToken(t) == IF t = "LiteLLM" THEN "litellm" ELSE t
\* str.lower()
Lower(url) == [i \in 1..Len(url) |-> LowerToken(url[i])]

RECURSIVE RStripSlash(_)
\* str.rstrip("/")
RStripSlash(url) ==
    IF url # <<>> /\ url[Len(url)] = "/"
    THEN RStripSlash(SubSeq(url, 1, Len(url) - 1)) ELSE url

\* base_url.rstrip("/") + endpoint
EndpointUrl(base_url, endpoint) == Append(RStripSlash(base_url), endpoint)

\* A JSON value of a response body: an object (fields: key -> value), an array
\* (items), a number, or text that is not JSON.  An entry of a model list is an
\* object of identifier keys or a string.
NoFields == [k \in {} |-> <<>>]
ObjectItem(f) == [kind |-> "object", fields |-> f]
StringItem == [kind |-> "string", fields |-> NoFields]
Items ==
    {ObjectItem([id |-> "m1"]), ObjectItem([name |-> "m2"]), ObjectItem([model |-> "m3"]),
     StringItem}
ItemLists == TextsUpTo(Items, MaxItems)

NotJson == [kind |-> "notjson", items |-> <<>>, fields |-> NoFields]
NumberBody == [kind |-> "number", items |-> <<>>, fields |-> NoFields]
ArrayBody(items) == [kind |-> "array", items |-> items, fields |-> NoFields]
ObjectBody(f) == [kind |-> "object", items |-> <<>>, fields |-> f]

TransportError == [error |-> TRUE, status |-> 0, body |-> NotJson]
Answer(status, body) == [error |-> FALSE, status |-> status, body |-> body]

Returned(v) == [raised |-> None, value |-> v]
Raised(exc) == [raised |-> Some(exc), value |-> <<>>]

RECURSIVE Pluck(_, _)
\* [model[key] for model in items]: the first entry that is no object
\* (TypeError) or lacks the key (KeyError) ends it.
Pluck(items, key) ==
    IF items = <<>> THEN Returned(<<>>)
    ELSE IF Head(items).kind # "object" THEN Raised("TypeError")
    ELSE IF key \notin DOMAIN Head(items).fields THEN Raised("KeyError")
    ELSE LET rest == Pluck(Tail(items), key)
         IN  IF rest.raised # None THEN rest
             ELSE Returned(<<Head(items).fields[key]>> \o rest.value)

\* ------------------------------------------------------ config.py: catalog
\* ModelConfig.model_types: provider kind -> wire kind
ModelTypes ==
    [ollama |-> "rest", openai |-> "openai", huggingface |-> "huggingface",
     ggml |-> "ggml", openai_like |-> "rest"]

StaticKinds == {"openai", "huggingface", "ggml"}

COMMA == 44

RECURSIVE StripNonEmpty(_)
\* [model.strip() for model in models if model.strip()]
StripNonEmpty(segs) ==
    IF segs = <<>> THEN <<>>
    ELSE IF Strip(Head(segs)) # <<>>
         THEN <<Strip(Head(segs))>> \o StripNonEmpty(Tail(segs))
         ELSE StripNonEmpty(Tail(segs))

\* _get_openai_models, _get_huggingface_models, _get_ggml_models on the text of
\* the environment variable ("" when unset).
StaticModels(env_text) == Returned(StripNonEmpty(SplitFrom(env_text, COMMA, 1, <<>>)))

\* _get_ollama_models on the answer to its one GET.
get_ollama_models(resp) ==
    IF resp.error \/ resp.status >= 400 \/ resp.body.kind = "notjson" THEN Returned(<<>>)
    ELSE IF resp.body.kind # "object" THEN Raised("AttributeError")
    ELSE Pluck(IF "models" \in DOMAIN resp.body.fields THEN resp.body.fields["models"]
               ELSE <<>>, "name")

endpoints_to_try == <<"/v1/models", "/api/models", "/models">>

RECURSIVE ArrayModels(_)
\* the models collected from a bare list (utils.py:96-104)
ArrayModels(items) ==
    IF items = <<>> THEN <<>>
    ELSE LET it == Head(items)
             f == it.fields
             one == IF it.kind # "object" THEN <<>>
                    ELSE IF "id" \in DOMAIN f THEN <<f["id"]>>
                    ELSE IF "name" \in DOMAIN f THEN <<f["name"]>>
                    ELSE IF "model" \in DOMAIN f THEN <<f["model"]>>
                    ELSE <<>>
         IN  one \o ArrayModels(Tail(items))

Continue == [outcome |-> "continue", res |-> Returned(<<>>)]
Finish(res) == [outcome |-> IF res.raised = None THEN "return" ELSE "raise", res |-> res]

\* One iteration of the loop of get_openai_like_models on the answer to its GET.
OpenAILikeModelsStep(resp) ==
    IF resp.error \/ resp.status # 200 \/ resp.body.kind = "notjson" THEN Continue
    ELSE LET f == resp.body.fields
         IN  CASE resp.body.kind = "object" ->
                    IF "data" \in DOMAIN f THEN Finish(Pluck(f["data"], "id"))
                    ELSE IF "models" \in DOMAIN f THEN Finish(Pluck(f["models"], "name"))
                    ELSE IF "model_list" \in DOMAIN f THEN Finish(Pluck(f["model_list"], "id"))
                    ELSE IF "available_models" \in DOMAIN f
                         THEN Finish(Pluck(f["available_models"], "id"))
                    ELSE Continue
               [] resp.body.kind = "array" ->
                    IF ArrayModels(resp.body.items) # <<>>
                    THEN Finish(Returned(ArrayModels(resp.body.items)))
                    ELSE Continue
               [] OTHER -> Continue

\* The fallback of get_openai_like_models: [model] if model else []
FallbackModels(env_model) == Returned(env_model)

KnownModelType_KindDropped(model_type) == model_type \in DOMAIN ModelTypes \ {"openai_like"}

\* Whether ModelConfig.list_models / get_model_type_info accept the kind.
KnownModelType(model_type) == model_type \in DOMAIN ModelTypes

\* not base_url
Falsy(opt) == opt = None \/ opt = Some(<<>>)

ModelTypeInputs == DOMAIN ModelTypes \cup {"bogus", "Ollama", ""}
ListingKeys == {"data", "models", "model_list", "available_models"}
ListingBodies ==
    {NotJson, NumberBody, ObjectBody([error |-> <<>>])}
    \cup {ArrayBody(l) : l \in ItemLists}
    \cup {ObjectBody([k \in {key} |-> l]) : key \in ListingKeys, l \in ItemLists}
ListingResponses ==
    {TransportError, Answer(404, ObjectBody([data |-> <<ObjectItem([id |-> "m1"])>>]))}
    \cup {Answer(200, b) : b \in ListingBodies}
EnvTexts == TextsUpTo({97, COMMA, SP}, MaxEnvLen)
EnvModels == {None, Some("m0")}
Option(S) == {None} \cup {Some(x) : x \in S}

NoResponseYet == Raised("none")

CatalogCalls ==
    [op : {"list_models", "get_model_type_info"}, model_type : ModelTypeInputs,
     base_url : {None}, env_text : {<<>>}, env_model : {None}]
    \cup [op : {"list_models"}, model_type : StaticKinds,
          base_url : {None}, env_text : EnvTexts, env_model : {None}]
    \cup [op : {"list_models"}, model_type : {"openai_like"},
          base_url : Option(BaseUrls(PlainUrlTokens) \cup {<<>>}), env_text : {<<>>},
          env_model : EnvModels]

InitCatalog ==
    /\ pc = "called"
    /\ call \in CatalogCalls
    /\ result = NoResponseYet
    /\ idx = 0
    /\ http_log = <<>>
    /\ lister_calls = <<>>
    /\ popen_count = 0
    /\ ServerIdle

\* ModelConfig.list_models, up to the loop of get_openai_like_models.
ListModels ==
    /\ pc = "called"
    /\ call.op = "list_models"
    /\ UNCHANGED <<call, popen_count, server_vars>>
    /\ IF ~KnownModelType(call.model_type)
       THEN /\ result' = Raised("ValueError")
            /\ pc' = "done"
            /\ UNCHANGED <<idx, http_log, lister_calls>>
       ELSE /\ lister_calls' = Append(lister_calls, call.model_type)
            /\ CASE call.model_type = "ollama" ->
                      \E resp \in ListingResponses :
                          /\ http_log' = Append(http_log, [url |-> <<"OLLAMA_TAGS_URL">>, resp |-> resp])
                          /\ result' = get_ollama_models(resp)
                          /\ pc' = "done"
                          /\ UNCHANGED idx
                 [] call.model_type \in StaticKinds ->
                      /\ result' = StaticModels(call.env_text)
                      /\ pc' = "done"
                      /\ UNCHANGED <<idx, http_log>>
                 [] OTHER ->
                      IF Falsy(call.base_url)
                      THEN /\ result' = Returned(<<>>)
                           /\ pc' = "done"
                           /\ UNCHANGED <<idx, http_log>>
                      ELSE /\ pc' = "loop"
                           /\ idx' = 1
                           /\ UNCHANGED <<result, http_log>>

\* One iteration of the loop of get_openai_like_models (utils.py:77-110).
OpenAILikeModelsRequest ==
    /\ pc = "loop"
    /\ call.op = "list_models"
    /\ idx <= Len(endpoints_to_try)
    /\ \E resp \in ListingResponses :
          LET step == OpenAILikeModelsStep(resp)
          IN  /\ http_log' = Append(http_log,
                     [url |-> EndpointUrl(call.base_url[1], endpoints_to_try[idx]),
                      resp |-> resp])
              /\ IF step.outcome = "continue"
                 THEN /\ idx' = idx + 1
                      /\ UNCHANGED <<pc, result>>
                 ELSE /\ result' = step.res
                      /\ pc' = "done"
                      /\ UNCHANGED idx
    /\ UNCHANGED <<call, lister_calls, popen_count, server_vars>>

\* The end of get_openai_like_models when no candidate returned (utils.py:112-114).
OpenAILikeModelsFallback ==
    /\ pc = "loop"
    /\ call.op = "list_models"
    /\ idx > Len(endpoints_to_try)
    /\ result' = FallbackModels(call.env_model)
    /\ pc' = "done"
    /\ UNCHANGED <<call, idx, http_log, lister_calls, popen_count, server_vars>>

\* ModelConfig.get_model_type_info
GetModelTypeInfo ==
    /\ pc = "called"
    /\ call.op = "get_model_type_info"
    /\ result' = IF KnownModelType(call.model_type)
                 THEN Returned(<<ModelTypes[call.model_type]>>)
                 ELSE Raised("ValueError")
    /\ pc' = "done"
    /\ UNCHANGED <<call, idx, http_log, lister_calls, popen_count, server_vars>>

NextCatalog ==
    \/ ListModels
    \/ OpenAILikeModelsRequest
    \/ OpenAILikeModelsFallback
    \/ GetModelTypeInfo

SpecCatalog == InitCatalog /\ [][NextCatalog]_vars

\* -------------------------------------------------- claims on SpecCatalog
ConfiguredKinds == {"ollama", "openai", "huggingface", "ggml", "openai_like"}

\* C2: for a provider kind outside the configured kinds, list_models and
\* get_model_type_info raise ValueError, invoke no model lister and make no
\* HTTP request; for a configured kind they never end in ValueError.
C2_InvalidProviderRejected ==
    /\ call.model_type \notin ConfiguredKinds =>
          /\ lister_calls = <<>>
          /\ http_log = <<>>
          /\ pc # "loop"
          /\ pc = "done" => result = Raised("ValueError")
    /\ (call.model_type \in ConfiguredKinds /\ pc = "done") =>
          result.raised # Some("ValueError")

C2_Witness ==
    /\ pc = "done"
    /\ call.op = "list_models"
    /\ call.model_type = "bogus"
    /\ result = Raised("ValueError")

\* An entry of a model list that has no identifier under the key.
LacksKey(items, key) ==
    \E i \in 1..Len(items) :
        items[i].kind # "object" \/ key \notin DOMAIN items[i].fields

\* The listing call of the live-list provider failed: a transport error, a
\* non-success status, a body that is not JSON, or JSON of an unexpected shape.
OllamaListingFailed(resp) ==
    \/ resp.error
    \/ resp.status # 200
    \/ resp.body.kind # "object"
    \/ /\ "models" \in DOMAIN resp.body.fields
       /\ LacksKey(resp.body.fields["models"], "name")

\* C6: on any failure of the listing call, list_models("ollama") returns an
\* empty sequence and raises nothing.
C6_OllamaFailureEmpty ==
    (/\ pc = "done"
     /\ call.op = "list_models"
     /\ call.model_type = "ollama"
     /\ OllamaListingFailed(http_log[1].resp)) => result = Returned(<<>>)

\* A candidate of the openai_like listing failed: a transport error, a status
\* other than 200, a body of no known shape, or entries without the identifier.
CandidateFailed(resp) ==
    \/ resp.error
    \/ resp.status # 200
    \/ resp.body.kind \in {"notjson", "number"}
    \/ /\ resp.body.kind = "object"
       /\ \/ DOMAIN resp.body.fields \cap ListingKeys = {}
          \/ \E k \in DOMAIN resp.body.fields \cap ListingKeys :
                 LacksKey(resp.body.fields[k], IF k = "models" THEN "name" ELSE "id")
    \/ /\ resp.body.kind = "array"
       /\ ArrayModels(resp.body.items) = <<>>

\* C7: the openai_like listing requests /v1/models, /api/models, /models in
\* that order, raises nothing, and when every candidate failed returns exactly
\* the model named by OPENAI_LIKE_MODEL (nothing if unset).
C7_OpenAILikeFallback ==
    (/\ pc = "done"
     /\ call.op = "list_models"
     /\ call.model_type = "openai_like"
     /\ ~Falsy(call.base_url)) =>
        /\ result.raised = None
        /\ \A i \in 1..Len(http_log) :
               http_log[i].url = EndpointUrl(call.base_url[1], endpoints_to_try[i])
        /\ (\A i \in 1..Len(http_log) : CandidateFailed(http_log[i].resp)) =>
               /\ Len(http_log) = Len(endpoints_to_try)
               /\ result = Returned(call.env_model)

\* ------------------------------------------- config.py: dialect resolution
LiteLLMEndpoints == [generate |-> "/v1/chat/completions", models |-> "/v1/models"]
OllamaEndpoints == [generate |-> "/api/generate", models |-> "/api/tags"]
DefaultEndpoints == [generate |-> "/v1/chat/completions", models |-> "/v1/models"]

\* The two heuristics on the base URL (config.py:95/125 and 101/128).
LooksLikeLiteLLM(url) == Contains(url, "4000") \/ Contains(Lower(url), "litellm")

LooksLikeOllama_NameOnly(url) == Contains(Lower(url), "ollama")

LooksLikeOllama(url) == Contains(url, "11434") \/ Contains(Lower(url), "ollama")

\* ModelConfig.get_openai_like_endpoints; `"4000" in None` raises TypeError.
get_openai_like_endpoints(base_url) ==
    IF base_url = None THEN Raised("TypeError")
    ELSE IF LooksLikeLiteLLM(base_url[1]) THEN Returned(LiteLLMEndpoints)
    ELSE IF LooksLikeOllama(base_url[1]) THEN Returned(OllamaEndpoints)
    ELSE Returned(DefaultEndpoints)

response_fields == <<"choices", "response", "output", "content", "text">>

RECURSIVE FirstFieldIn(_, _)
FirstFieldIn(keys, i) ==
    IF i > Len(response_fields) THEN "choices"
    ELSE IF response_fields[i] \in keys THEN response_fields[i]
    ELSE FirstFieldIn(keys, i + 1)

\* utils.get_response_field_from_data: `field in data` is key membership on an
\* object, element membership on an array (no entry of a model list equals a
\* field name) and a TypeError on a number.
get_response_field_from_data(data) ==
    CASE data.kind = "object" -> Returned(FirstFieldIn(DOMAIN data.fields, 1))
      [] data.kind = "array" -> Returned("choices")
      [] OTHER -> Raised("TypeError")

test_endpoints == <<"/v1/chat/completions", "/api/generate", "/api/chat">>
AcceptedStatus == {200, 400, 422}

ProbeStep_Only200(resp) ==
    IF resp.error THEN Continue
    ELSE IF resp.status # 200 THEN Continue
    ELSE IF resp.body.kind = "notjson" THEN Continue
    ELSE LET picked == get_response_field_from_data(resp.body)
         IN  IF picked.raised # None THEN Finish(Returned("choices")) ELSE Finish(picked)

\* One iteration of the loop of get_response_json_field on the answer to its
\* POST: a RequestException (transport, or json() on a body that is not JSON)
\* continues; any other exception leaves the loop for the default (config.py:165).
ProbeStep(resp) ==
    IF resp.error THEN Continue
    ELSE IF resp.status \notin AcceptedStatus THEN Continue
    ELSE IF resp.body.kind = "notjson" THEN Continue
    ELSE LET picked == get_response_field_from_data(resp.body)
         IN  IF picked.raised # None THEN Finish(Returned("choices")) ELSE Finish(picked)

\* The part of get_response_json_field before the loop (config.py:125-130):
\* the field the heuristics give, or "probe".
HeuristicField(base_url) ==
    IF base_url = None THEN Raised("TypeError")
    ELSE IF LooksLikeLiteLLM(base_url[1]) THEN Returned("choices")
    ELSE IF LooksLikeOllama(base_url[1]) THEN Returned("response")
    ELSE Returned("probe")

ProbeKeySets ==
    {{}, {"choices"}, {"response"}, {"response", "choices"}, {"text", "output"}, {"error"}}
ProbeBodies ==
    {NotJson, NumberBody, ArrayBody(<<>>)}
    \cup {ObjectBody([k \in ks |-> <<>>]) : ks \in ProbeKeySets}
ProbeResponses ==
    {TransportError} \cup {Answer(st, b) : st \in {200, 400, 422, 404, 500}, b \in ProbeBodies}

DialectCalls ==
    [op : {"get_openai_like_endpoints", "get_response_json_field"},
     base_url : Option(BaseUrls(UrlTokens))]

InitDialect ==
    /\ pc = "called"
    /\ call \in DialectCalls
    /\ result = NoResponseYet
    /\ idx = 0
    /\ http_log = <<>>
    /\ lister_calls = <<>>
    /\ popen_count = 0
    /\ ServerIdle

GetOpenAILikeEndpoints ==
    /\ pc = "called"
    /\ call.op = "get_openai_like_endpoints"
    /\ result' = get_openai_like_endpoints(call.base_url)
    /\ pc' = "done"
    /\ UNCHANGED <<call, idx, http_log, lister_calls, popen_count, server_vars>>

\* get_response_json_field up to its loop.
GetResponseJsonField ==
    /\ pc = "called"
    /\ call.op = "get_response_json_field"
    /\ IF HeuristicField(call.base_url) = Returned("probe")
       THEN /\ pc' = "loop"
            /\ idx' = 1
            /\ UNCHANGED result
       ELSE /\ result' = HeuristicField(call.base_url)
            /\ pc' = "done"
            /\ UNCHANGED idx
    /\ UNCHANGED <<call, http_log, lister_calls, popen_count, server_vars>>

\* One iteration of the loop of get_response_json_field (config.py:146-163).
ProbeRequest ==
    /\ pc = "loop"
    /\ call.op = "get_response_json_field"
    /\ idx <= Len(test_endpoints)
    /\ \E resp \in ProbeResponses :
          LET step == ProbeStep(resp)
          IN  /\ http_log' = Append(http_log,
                     [url |-> EndpointUrl(call.base_url[1], test_endpoints[idx]),
                      resp |-> resp])
              /\ IF step.outcome = "continue"
                 THEN /\ idx' = idx + 1
                      /\ UNCHANGED <<pc, result>>
                 ELSE /\ result' = step.res
                      /\ pc' = "done"
                      /\ UNCHANGED idx
    /\ UNCHANGED <<call, lister_calls, popen_count, server_vars>>

\* The default when no candidate decided (config.py:168-169).
ProbeDefault ==
    /\ pc = "loop"
    /\ call.op = "get_response_json_field"
    /\ idx > Len(test_endpoints)
    /\ result' = Returned("choices")
    /\ pc' = "done"
    /\ UNCHANGED <<call, idx, http_log, lister_calls, popen_count, server_vars>>

NextDialect ==
    \/ GetOpenAILikeEndpoints
    \/ GetResponseJsonField
    \/ ProbeRequest
    \/ ProbeDefault

SpecDialect == InitDialect /\ [][NextDialect]_vars

\* -------------------------------------------------- claims on SpecDialect
HasLocalPort(base_url) == base_url # None /\ Contains(base_url[1], "11434")
HasGatewayMark(base_url) ==
    base_url # None /\ (Contains(base_url[1], "4000") \/ Contains(Lower(base_url[1]), "litellm"))

\* What the claim expects of a call on a base URL with the local-inference port.
LocalDialectResolved ==
    /\ http_log = <<>>
    /\ pc # "loop"
    /\ pc = "done" =>
          /\ call.op = "get_openai_like_endpoints" =>
                result = Returned([generate |-> "/api/generate", models |-> "/api/tags"])
          /\ call.op = "get_response_json_field" => result = Returned("response")

\* C3 as stated: for every base URL that contains "11434", the endpoints are
\* the local-inference paths and the response field is "response", with no
\* network call.
C3_Original == HasLocalPort(call.base_url) => LocalDialectResolved

\* C3 as amended: the same for every base URL that contains "11434" and
\* neither "4000" nor (in any case) "litellm"; and no base URL that contains
\* "11434" leads to a network call.
C3_LocalPortResolved ==
    /\ (HasLocalPort(call.base_url) /\ ~HasGatewayMark(call.base_url)) => LocalDialectResolved
    /\ HasLocalPort(call.base_url) => (http_log = <<>> /\ pc # "loop")

C3_Witness ==
    /\ pc = "done"
    /\ call.op = "get_response_json_field"
    /\ HasLocalPort(call.base_url)
    /\ ~HasGatewayMark(call.base_url)
    /\ result = Returned("response")

\* The call is get_response_json_field on a base URL no heuristic matches.
ProbingCall ==
    /\ call.op = "get_response_json_field"
    /\ call.base_url # None
    /\ \A m \in {"4000", "11434", "litellm", "ollama"} : ~Contains(Lower(call.base_url[1]), m)

Accepted(resp) == ~resp.error /\ resp.status \in {200, 400, 422}

\* The answer at which probing is to stop: an accepted status, and when
\* needJson also a body that parses as JSON.
Stops(resp, needJson) == Accepted(resp) /\ (needJson => resp.body.kind # "notjson")

\* The response field of a JSON body: the first of the preference list among
\* its top-level keys, "choices" when there is none.
PickedField(body) ==
    LET pref == <<"choices", "response", "output", "content", "text">>
        hits == {i \in 1..Len(pref) : pref[i] \in DOMAIN body.fields}
    IN  IF body.kind # "object" \/ hits = {} THEN "choices"
        ELSE pref[CHOOSE i \in hits : \A j \in hits : i <= j]

CandidatePaths == <<"/v1/chat/completions", "/api/generate", "/api/chat">>

\* Probing that requests the candidates in order and stops at the first one
\* whose answer Stops, the field being picked from that answer.
ProbesInOrderUntil(needJson) ==
    ProbingCall =>
        /\ Len(http_log) <= Len(CandidatePaths)
        /\ \A i \in 1..Len(http_log) :
               /\ http_log[i].url = Append(RStripSlash(call.base_url[1]), CandidatePaths[i])
               /\ i < Len(http_log) => ~Stops(http_log[i].resp, needJson)
        /\ (http_log # <<>> /\ Stops(http_log[Len(http_log)].resp, needJson)) =>
               /\ pc = "done"
               /\ result = Returned(PickedField(http_log[Len(http_log)].resp.body))
        /\ (pc = "done" /\ \A i \in 1..Len(http_log) : ~Stops(http_log[i].resp, needJson)) =>
               Len(http_log) = Len(CandidatePaths)

\* C4 as stated: the candidates are probed in the order /v1/chat/completions,
\* /api/generate, /api/chat and probing stops at the first that answers with
\* status 200, 400 or 422, whose body gives the field; no later one is requested.
C4_Original == ProbesInOrderUntil(FALSE)

\* C4 as amended: probing stops at the first candidate that answers with
\* status 200, 400 or 422 and a body that parses as JSON; an accepted status
\* with a body that is not JSON is passed over like a transport error.
C4_ProbeOrderFirstAccepted == ProbesInOrderUntil(TRUE)

C4_Witness ==
    /\ ProbingCall
    /\ pc = "done"
    /\ Len(http_log) = 2
    /\ ~Accepted(http_log[1].resp)
    /\ Accepted(http_log[2].resp)
    /\ http_log[2].resp.body = ObjectBody([response |-> <<>>])
    /\ result = Returned("response")

\* ------------------------------------------------- server.py: run_attack
RECURSIVE ProbeFrom(_, _)
\* The loop of get_response_json_field from candidate i on, responses[i]
\* being the answer of candidate i.
ProbeFrom(responses, i) ==
    IF i > Len(test_endpoints) THEN Returned("choices")
    ELSE IF ProbeStep(responses[i]).outcome = "continue" THEN ProbeFrom(responses, i + 1)
    ELSE ProbeStep(responses[i]).res

\* ModelConfig.get_response_json_field as one call.
get_response_json_field(base_url, responses) ==
    IF HeuristicField(base_url) = Returned("probe") THEN ProbeFrom(responses, 1)
    ELSE HeuristicField(base_url)

RECURSIVE ProbedFrom(_, _)
\* The candidate whose body the loop of get_response_json_field returned a
\* field of (config.py:158-161), if it returned one: None when the loop ran
\* out of candidates or was left for the default.
ProbedFrom(responses, i) ==
    IF i > Len(test_endpoints) THEN None
    ELSE IF ProbeStep(responses[i]).outcome = "continue" THEN ProbedFrom(responses, i + 1)
    ELSE IF get_response_field_from_data(responses[i].body).raised # None THEN None
    ELSE Some(test_endpoints[i])

\* Where the field of get_response_json_field came from: the endpoint probed,
\* or None for a field given by a heuristic or by the default.
ProbedPath(base_url, responses) ==
    IF HeuristicField(base_url) = Returned("probe") THEN ProbedFrom(responses, 1) ELSE None

\* ModelConfig.ollama_api_url, OLLAMA_API_URL being unset
OllamaApiUrl == <<"http://localhost", "11434", "/api/generate">>

\* GarakServer._get_generator_options_file up to the creation of the file:
\* the generator configuration, or the exception of the dialect resolution.
\* probed_path is not written to the file: it records which endpoint's body
\* the response field was read from.
GeneratorOptions(model_type, api_url, api_key, responses) ==
    IF model_type = "openai_like"
    THEN LET endpoints == get_openai_like_endpoints(api_url)
             field == get_response_json_field(api_url, responses)
         IN  IF endpoints.raised # None THEN endpoints
             ELSE IF field.raised # None THEN field
             ELSE Returned([template |-> "litellm.json",
                            uri |-> EndpointUrl(api_url[1], endpoints.value.generate),
                            response_json_field |-> Some(field.value),
                            probed_path |-> ProbedPath(api_url, responses),
                            authorization |-> api_key])
    ELSE Returned([template |-> "ollama.json",
                   uri |-> IF Falsy(api_url) THEN <<"ollama.json">> ELSE api_url[1],
                   response_json_field |-> None,
                   probed_path |-> None,
                   authorization |-> api_key])

UnlinkIfExists_Forgotten(files, config_file) == files

\* if os.path.exists(config_file): os.unlink(config_file)
UnlinkIfExists(files, config_file) ==
    IF config_file \in files THEN files \ {config_file} ELSE files

Outcome(res) == IF res.raised = None THEN "returned" ELSE "raised"

AttackModelTypes == {"ollama", "openai_like", "openai", "bogus"}
AttackUrlTokens == {"/", "4000", "11434"}
AttackProbeResponses ==
    {TransportError, Answer(404, ObjectBody([response |-> <<>>])),
     Answer(200, ObjectBody([response |-> <<>>])), Answer(200, NotJson)}
\* What the garak process of an attack does; report is the file of REPORT_DIR
\* it writes, None being a run that writes none there.
AttackProcesses ==
    [spawn : {"ok"}, stdout : {<<109>>, <<ESC, LBRACKET, 109>>}, stderr : {<<>>},
     returncode : {0}, pid : {4242}, report : {None}]
    \cup [spawn : {"ok"}, stdout : {<<>>}, stderr : {<<109>>}, returncode : {1}, pid : {4242},
          report : {None}]
    \cup [spawn : {"SubprocessError", "OSError"}, stdout : {<<>>}, stderr : {<<>>},
          returncode : {0}, pid : {4242}, report : {None}]

Init ==
    /\ pc = "done"
    /\ call = [op |-> "none"]
    /\ result = NoResponseYet
    /\ idx = 0
    /\ http_log = <<>>
    /\ lister_calls = <<>>
    /\ popen_count = 0
    /\ environ \in [OPENAI_LIKE_API_URL : Option(BaseUrls(AttackUrlTokens)),
                    OPENAI_LIKE_API_KEY : {None, Some("key")},
                    PARALLEL_ATTEMPTS : {None}]
    /\ attack = [c \in Callers |-> NoAttack]
    /\ disk = {}
    /\ next_tmp = 1
    /\ calls_begun = 0
    /\ model_config = None
    /\ cached_probes = None
    /\ probe_log = <<>>
    /\ os_name = "posix"
    /\ reports = NoReports
    /\ clock = 1
    /\ report_result = NoReportYet

\* What the candidate endpoints would answer to the probes of this call.
ProbeAnswers(model_type) ==
    IF /\ model_type = "openai_like"
       /\ HeuristicField(environ.OPENAI_LIKE_API_URL) = Returned("probe")
    THEN [1..Len(test_endpoints) -> AttackProbeResponses]
    ELSE {[i \in 1..Len(test_endpoints) |-> TransportError]}

library_vars == <<pc, call, result, idx, http_log, lister_calls, popen_count>>

\* run_attack up to the try statement: the generator-config file is written
\* for "ollama" and "openai_like" (server.py:100, 118-120).
RunAttackBegin(c) ==
    /\ attack[c].pc = "idle"
    /\ calls_begun < MaxAttacks
    /\ calls_begun' = calls_begun + 1
    /\ \E model_type \in AttackModelTypes : \E responses \in ProbeAnswers(model_type) :
          LET options ==
                  IF model_type = "ollama"
                  THEN GeneratorOptions("ollama", Some(OllamaApiUrl), None, responses)
                  ELSE GeneratorOptions("openai_like", environ.OPENAI_LIKE_API_URL,
                                        environ.OPENAI_LIKE_API_KEY, responses)
          IN  IF model_type \notin {"ollama", "openai_like"}
              THEN /\ attack' = [attack EXCEPT ![c].pc = "spawn", ![c].model_type = model_type]
                   /\ UNCHANGED <<disk, next_tmp>>
              ELSE IF options.raised # None
              THEN /\ attack' = [attack EXCEPT ![c].pc = "raised",
                                               ![c].model_type = model_type,
                                               ![c].result = RaisedResult(options.raised[1])]
                   /\ UNCHANGED <<disk, next_tmp>>
              ELSE /\ attack' = [attack EXCEPT ![c].pc = "spawn",
                                               ![c].model_type = model_type,
                                               ![c].generator = Some(options.value),
                                               ![c].config_file = Some(next_tmp)]
                   /\ disk' = disk \cup {next_tmp}
                   /\ next_tmp' = next_tmp + 1
    /\ UNCHANGED <<environ, library_vars, config_vars, report_vars>>

\* A process started by c writes file name of REPORT_DIR at time now: a new
\* file is created, an old one is modified and keeps its creation time.
WriteReport(files, name, c, now) ==
    [files EXCEPT ![name] =
        Some([created |-> IF files[name] = None THEN now ELSE files[name][1].created,
              changed |-> now, writer |-> c])]

\* get_terminal_commands_output inside run_attack, the process being one of
\* procs; a process that was started may write its report under REPORT_PREFIX,
\* which is the same for every run (server.py:107, 127, 145). With a config
\* file the finally clause is still to run.
SpawnStep(c, procs) ==
    /\ attack[c].pc = "spawn"
    /\ \E proc \in procs :
          LET res == get_terminal_commands_output(proc)
              written == IF proc.spawn = "ok" THEN proc.report ELSE None
          IN  /\ attack' = [attack EXCEPT
                      ![c].result = res,
                      ![c].wrote = written,
                      ![c].pc = IF attack[c].config_file # None THEN "finally" ELSE Outcome(res)]
              /\ IF written = None
                 THEN UNCHANGED <<reports, clock>>
                 ELSE /\ reports' = WriteReport(reports, written[1], c, clock)
                      /\ clock' = clock + 1
    /\ UNCHANGED <<environ, disk, next_tmp, calls_begun, library_vars, config_vars,
                   os_name, report_result>>

RunAttackSpawn(c) == SpawnStep(c, AttackProcesses)

\* The finally clause of run_attack (server.py:113-116, 136-138).
RunAttackFinally(c) ==
    /\ attack[c].pc = "finally"
    /\ disk' = UnlinkIfExists(disk, attack[c].config_file[1])
    /\ attack' = [attack EXCEPT ![c].pc = Outcome(attack[c].result)]
    /\ UNCHANGED <<environ, next_tmp, calls_begun, library_vars, config_vars, report_vars>>

\* The answer (or the exception) of the RPC is delivered; the caller may call again.
RunAttackEnd(c) ==
    /\ attack[c].pc \in {"returned", "raised"}
    /\ attack' = [attack EXCEPT ![c] = NoAttack]
    /\ UNCHANGED <<environ, disk, next_tmp, calls_begun, library_vars, config_vars, report_vars>>

Next ==
    \E c \in Callers :
        \/ RunAttackBegin(c)
        \/ RunAttackSpawn(c)
        \/ RunAttackFinally(c)
        \/ RunAttackEnd(c)

Spec == Init /\ [][Next]_vars

\* ---------------------------------------------------------- claims on Spec
\* C1: a generator-config file exists only while the run_attack call that
\* wrote it is between its creation and its finally clause: once the call has
\* returned or raised, its file is not on disk, and no file is ever left over.
C1_TempFileRemoved ==
    /\ \A c \in Callers :
          (attack[c].pc \in {"returned", "raised"} /\ attack[c].config_file # None) =>
              attack[c].config_file[1] \notin disk
    /\ \A f \in disk :
          \E c \in Callers :
              attack[c].pc \in {"spawn", "finally"} /\ attack[c].config_file = Some(f)

C1_Witness ==
    \E c \in Callers :
        /\ attack[c].pc = "raised"
        /\ attack[c].model_type = "openai_like"
        /\ attack[c].config_file # None
        /\ attack[c].result.raised = Some("OSError")
        /\ attack[c].config_file[1] \notin disk

\* C5: dialect resolution never raises to its caller: whatever
\* OPENAI_LIKE_API_URL is (unset included), no run_attack call ends with the
\* exception of the dialect resolution, and every openai_like run gets past it
\* with a generator configuration.
C5_DialectNeverRaises ==
    \A c \in Callers :
        /\ attack[c].pc = "raised" => attack[c].result.raised # Some("TypeError")
        /\ (attack[c].model_type = "openai_like" /\ attack[c].pc \in {"spawn", "finally", "returned"})
              => attack[c].generator # None

\* The response field each generate path goes with in the code's own dialect
\* tables (config.py:95-112 with 125-130, and the default of 169).
DialectField(path) == IF path = "/api/generate" THEN "response" ELSE "choices"

UriPath(g) == g.uri[Len(g.uri)]

\* C14: in every generator configuration written for an openai_like run the
\* response field and the endpoint URI belong to one dialect: a field picked by
\* probing was read from the body of the very path written as the URI, and a
\* field given by a heuristic or the default is the one of the URI's path.
C14_FieldMatchesUri ==
    \A c \in Callers :
        (attack[c].generator # None /\ attack[c].generator[1].template = "litellm.json") =>
            LET g == attack[c].generator[1]
            IN  IF g.probed_path # None
                THEN g.probed_path[1] = UriPath(g)
                ELSE g.response_json_field = Some(DialectField(UriPath(g)))

\* ------------------------------------------------ config.py: parallel_attempts
MaxAttempts == 2

\* The characters PARALLEL_ATTEMPTS is made of here: "0", "1", "-", " ", "a".
AttemptChars == {48, 49, 45, SP, 97}
AttemptTexts == TextsUpTo(AttemptChars, MaxEnvLen)
AttemptInputs == -1..MaxAttempts

IsDigit(ch) == ch \in 48..57

\* The digits of an int literal: single underscores between digits are allowed.
ValidDigits(t) ==
    /\ t # <<>>
    /\ \A i \in 1..Len(t) : IsDigit(t[i]) \/ t[i] = 95
    /\ t[1] # 95 /\ t[Len(t)] # 95
    /\ \A i \in 1..(Len(t) - 1) : ~(t[i] = 95 /\ t[i + 1] = 95)

RECURSIVE DecimalValue(_)
DecimalValue(ds) ==
    IF ds = <<>> THEN 0
    ELSE 10 * DecimalValue(SubSeq(ds, 1, Len(ds) - 1)) + (ds[Len(ds)] - 48)

\* int(text) of Python: surrounding whitespace is dropped, a sign is allowed,
\* anything else than decimal digits raises ValueError.
int(text) ==
    LET t == Strip(text)
        signed == t # <<>> /\ t[1] \in {43, 45}
        body == IF signed THEN Tail(t) ELSE t
        magnitude == DecimalValue(SelectSeq(body, IsDigit))
    IN  IF ~ValidDigits(body) THEN Raised("ValueError")
        ELSE IF signed /\ t[1] = 45 THEN Returned(0 - magnitude)
        ELSE Returned(magnitude)

RECURSIVE DecimalDigits(_)
DecimalDigits(n) ==
    IF n < 10 THEN <<48 + n>> ELSE DecimalDigits(n \div 10) \o <<48 + (n % 10)>>

\* str(n) of an int
str(n) == IF n < 0 THEN <<45>> \o DecimalDigits(0 - n) ELSE DecimalDigits(n)

\* ModelConfig.__init__: int(os.getenv("PARALLEL_ATTEMPTS", "1")) (config.py:14).
NewModelConfig(env) ==
    LET parsed == int(IF env.PARALLEL_ATTEMPTS = None THEN <<49>> ELSE env.PARALLEL_ATTEMPTS[1])
    IN  IF parsed.raised # None THEN parsed
        ELSE Returned([parallel_attempts |-> parsed.value])

\* ModelConfig.set_parallel_attempts: the exception raised, if any, and the
\* object afterwards.
set_parallel_attempts(config, attempts) ==
    IF attempts < 1 THEN [raised |-> Some("ValueError"), config |-> config]
    ELSE [raised |-> None, config |-> [config EXCEPT !.parallel_attempts = attempts]]

\* The options of the garak command line of run_attack that do not depend on
\* the model or the probe (server.py:102-112, 121-131, 140-150).
AttackCommand(model_type, config) ==
    [model_type |-> IF model_type \in {"ollama", "openai_like"} THEN "rest" ELSE model_type,
     report_prefix |-> "./outputs",
     parallel_attempts |-> str(config.parallel_attempts)]

InitParallel ==
    /\ pc = "start"
    /\ call = [op |-> "none"]
    /\ result = NoResponseYet
    /\ idx = 0
    /\ http_log = <<>>
    /\ lister_calls = <<>>
    /\ popen_count = 0
    /\ environ \in [OPENAI_LIKE_API_URL : {None}, OPENAI_LIKE_API_KEY : {None},
                    PARALLEL_ATTEMPTS : Option(AttemptTexts)]
    /\ attack = [c \in Callers |-> NoAttack]
    /\ disk = {}
    /\ next_tmp = 1
    /\ calls_begun = 0
    /\ model_config = None
    /\ cached_probes = None
    /\ probe_log = <<>>
    /\ os_name = "posix"
    /\ reports = NoReports
    /\ clock = 1
    /\ report_result = NoReportYet

parallel_unchanged ==
    <<idx, http_log, lister_calls, popen_count, environ, attack, disk, next_tmp, calls_begun,
      cached_probes, probe_log, report_vars>>

\* GarakServer() constructs its ModelConfig (server.py:24).
ModelConfigInit ==
    /\ pc = "start"
    /\ call' = [op |-> "ModelConfig"]
    /\ LET made == NewModelConfig(environ)
       IN  IF made.raised # None
           THEN /\ result' = made
                /\ pc' = "done"
                /\ UNCHANGED model_config
           ELSE /\ result' = Returned(<<>>)
                /\ pc' = "configured"
                /\ model_config' = Some(made.value)
    /\ UNCHANGED parallel_unchanged

SetParallelAttempts ==
    /\ pc = "configured"
    /\ \E attempts \in AttemptInputs :
          LET done == set_parallel_attempts(model_config[1], attempts)
          IN  /\ call' = [op |-> "set_parallel_attempts", attempts |-> attempts,
                          before |-> model_config[1].parallel_attempts]
              /\ result' = IF done.raised # None THEN Raised(done.raised[1]) ELSE Returned(<<>>)
              /\ model_config' = Some(done.config)
    /\ UNCHANGED <<pc, parallel_unchanged>>

\* run_attack builds its command line from the configuration.
RunAttackCommand ==
    /\ pc = "configured"
    /\ \E model_type \in AttackModelTypes :
          /\ call' = [op |-> "run_attack", model_type |-> model_type]
          /\ result' = Returned(AttackCommand(model_type, model_config[1]))
    /\ UNCHANGED <<pc, model_config, parallel_unchanged>>

NextParallel ==
    \/ ModelConfigInit
    \/ SetParallelAttempts
    \/ RunAttackCommand

SpecParallel == InitParallel /\ [][NextParallel]_vars

\* C15: the parallelism count is at least 1 in every state of a ModelConfig,
\* whatever PARALLEL_ATTEMPTS was at construction and whatever
\* set_parallel_attempts calls followed; every attack command line carries a
\* --parallel_attempts value of at least 1; and a set_parallel_attempts call
\* with a value below 1 raises and leaves parallel_attempts as it was.
C15_ParallelAtLeastOne ==
    /\ model_config # None => model_config[1].parallel_attempts >= 1
    /\ call.op = "run_attack" => int(result.value.parallel_attempts).value >= 1
    /\ (call.op = "set_parallel_attempts" /\ call.attempts < 1) =>
          /\ result.raised = Some("ValueError")
          /\ model_config[1].parallel_attempts = call.before

\* ------------------------------------------------ server.py: list_garak_probes
MaxProbeCalls == 3

\* "probes: "
ProbesPrefix == <<112, 114, 111, 98, 101, 115, 58, SP>>

\* line.startswith(prefix)
StartsWith(line, prefix) ==
    Len(line) >= Len(prefix) /\ SubSeq(line, 1, Len(prefix)) = prefix

RECURSIVE ProbeNames(_)
\* The loop of the list_garak_probes tool (server.py:188-193): the non-empty
\* names after "probes: ".
ProbeNames(lines) ==
    IF lines = <<>> THEN <<>>
    ELSE LET line == Head(lines)
             probe == Strip(SubSeq(line, Len(ProbesPrefix) + 1, Len(line)))
         IN  IF StartsWith(line, ProbesPrefix) /\ probe # <<>>
             THEN <<probe>> \o ProbeNames(Tail(lines))
             ELSE ProbeNames(Tail(lines))

\* GarakServer.list_garak_probes on an object whose _cached_probes is cached:
\* the result, _cached_probes afterwards and the number of Popen calls made.
list_garak_probes(cached, proc) ==
    IF cached # None
    THEN [raised |-> None, value |-> cached[1], cached |-> cached, spawned |-> 0]
    ELSE LET out == get_terminal_commands_output(proc)
         IN  IF out.raised # None
             THEN [raised |-> out.raised, value |-> <<>>, cached |-> None, spawned |-> 1]
             ELSE [raised |-> None, value |-> <<out.lines, None>>,
                   cached |-> Some(<<out.lines, None>>), spawned |-> 1]

\* GarakServer(): self._cached_probes = None (server.py:25)
NewGarakServer == [cached_probes |-> None]

\* What 'garak --list_probes' does.
ProbeProcesses ==
    [spawn : {"ok"},
     stdout : {<<>>, <<109>>, ProbesPrefix, ProbesPrefix \o <<109>>, ProbesPrefix \o <<97>>,
               ProbesPrefix \o <<109, LF>> \o ProbesPrefix \o <<97>>},
     stderr : {<<>>}, returncode : {0}, pid : {4242}]
    \cup [spawn : {"OSError"}, stdout : {<<>>}, stderr : {<<>>}, returncode : {0}, pid : {4242}]

InitProbes ==
    /\ pc = "done"
    /\ call = [op |-> "none"]
    /\ result = NoResponseYet
    /\ idx = 0
    /\ http_log = <<>>
    /\ lister_calls = <<>>
    /\ popen_count = 0
    /\ ServerIdle

\* One call of the list_garak_probes tool: it makes its own GarakServer
\* (server.py:187), asks it for the probes and filters the lines.
ListGarakProbes ==
    /\ Len(probe_log) < MaxProbeCalls
    /\ \E proc \in ProbeProcesses :
          LET server == NewGarakServer
              listed == list_garak_probes(server.cached_probes, proc)
          IN  /\ cached_probes' = listed.cached
              /\ popen_count' = popen_count + listed.spawned
              /\ probe_log' = Append(probe_log,
                                     IF listed.raised # None THEN Raised(listed.raised[1])
                                     ELSE Returned(ProbeNames(listed.value[1])))
    /\ UNCHANGED <<pc, call, result, idx, http_log, lister_calls, environ, attack, disk,
                   next_tmp, calls_begun, model_config, report_vars>>

NextProbes == ListGarakProbes

SpecProbes == InitProbes /\ [][NextProbes]_vars

\* C12: the memoized probe list is shared by the list_garak_probes calls: once
\* the first call has returned, the garak process has been started once and is
\* never started again, every later call returns the probe list of the first,
\* and the cached value stays the one the first call stored.
C12_ProbeListMemoized ==
    (Len(probe_log) >= 1 /\ probe_log[1].raised = None) =>
        /\ popen_count = 1
        /\ \A i \in 2..Len(probe_log) : probe_log[i] = probe_log[1]
        /\ cached_probes # None
        /\ ProbeNames(cached_probes[1][1]) = probe_log[1].value

\* ------------------------------------------------------ server.py: get_report
\* os.path.getctime: the time of the last change of the file on POSIX, the
\* time of its creation on Windows.
getctime(file, platform) == IF platform = "nt" THEN file.created ELSE file.changed

\* glob.glob(os.path.join(REPORT_DIR, "*.jsonl"))
JsonlFiles(files) == {n \in ReportNames : files[n] # None}

LatestFile_Oldest(files, platform) ==
    CHOOSE n \in JsonlFiles(files) :
        \A m \in JsonlFiles(files) :
            getctime(files[n][1], platform) <= getctime(files[m][1], platform)

\* max(jsonl_files, key=os.path.getctime); no two files have one time here.
LatestFile(files, platform) ==
    CHOOSE n \in JsonlFiles(files) :
        \A m \in JsonlFiles(files) :
            getctime(files[m][1], platform) <= getctime(files[n][1], platform)

\* Path(REPORT_DIR, name).absolute()
AbsolutePath(name) == <<"cwd", "outputs", name>>

\* The get_report tool: the path returned, None when the function falls off
\* its end (server.py:216-221).
get_report(files, platform) ==
    IF JsonlFiles(files) # {} THEN Some(AbsolutePath(LatestFile(files, platform)))
    ELSE IF files["output.report.jsonl"] # None THEN Some(AbsolutePath("output.report.jsonl"))
    ELSE None

\* The garak process of an attack that may write a report.
ReportingProcesses ==
    [spawn : {"ok"}, stdout : {<<109>>}, stderr : {<<>>}, returncode : {0}, pid : {4242},
     report : Option(ReportNames)]
    \cup [spawn : {"OSError"}, stdout : {<<>>}, stderr : {<<>>}, returncode : {0},
          pid : {4242}, report : {None}]

InitReports ==
    /\ pc = "done"
    /\ call = [op |-> "none"]
    /\ result = NoResponseYet
    /\ idx = 0
    /\ http_log = <<>>
    /\ lister_calls = <<>>
    /\ popen_count = 0
    /\ environ = [OPENAI_LIKE_API_URL |-> Some(<<"http://host", "11434">>),
                  OPENAI_LIKE_API_KEY |-> None, PARALLEL_ATTEMPTS |-> None]
    /\ attack = [c \in Callers |-> NoAttack]
    /\ disk = {}
    /\ next_tmp = 1
    /\ calls_begun = 0
    /\ model_config = None
    /\ cached_probes = None
    /\ probe_log = <<>>
    /\ os_name \in {"posix", "nt"}
    /\ reports = NoReports
    /\ clock = 1
    /\ report_result = NoReportYet

RunAttackSpawnReporting(c) == SpawnStep(c, ReportingProcesses)

\* One call of the get_report tool. It takes no lock and looks at the whole
\* directory; writer and after are kept with the answer to tell whose file
\* it is and which callers' run_attack had ended when it was given.
GetReport ==
    /\ LET found == get_report(reports, os_name)
       IN  report_result' =
               [called |-> TRUE,
                value |-> found,
                writer |-> IF found = None THEN None
                           ELSE Some(reports[found[1][3]][1].writer),
                after |-> {c \in Callers : attack[c].pc \in {"returned", "raised"}}]
    /\ UNCHANGED <<environ, attack, disk, next_tmp, calls_begun, library_vars, config_vars,
                   os_name, reports, clock>>

NextReports ==
    \/ \E c \in Callers :
          \/ RunAttackBegin(c)
          \/ RunAttackSpawnReporting(c)
          \/ RunAttackFinally(c)
          \/ RunAttackEnd(c)
    \/ GetReport

SpecReports == InitReports /\ [][NextReports]_vars

\* ---------------------------------------------------- claims on SpecReports
\* C11: every get_report call returns a defined value, also on a directory
\* without report files, and with report files present it returns the
\* absolute path of the one modified last.
C11_ReportDefinedAndLatest ==
    [][report_result' # report_result =>
          /\ report_result'.value # None
          /\ JsonlFiles(reports) # {} =>
                \E n \in JsonlFiles(reports) :
                    /\ report_result'.value = Some(AbsolutePath(n))
                    /\ \A m \in JsonlFiles(reports) :
                          reports[m][1].changed <= reports[n][1].changed]_vars

\* C13: the runs share the report directory and get_report is not tied to a
\* run: whenever the directory holds report files, a get_report call returns
\* the one with the greatest getctime whichever caller's process wrote it, so
\* that after A has completed it can return a file written by B.
C13_LatestOfAnyRun ==
    [][(report_result' # report_result /\ JsonlFiles(reports) # {}) =>
          \E n \in JsonlFiles(reports) :
              /\ report_result'.value = Some(AbsolutePath(n))
              /\ report_result'.writer = Some(reports[n][1].writer)
              /\ \A m \in JsonlFiles(reports) :
                    getctime(reports[m][1], os_name) <= getctime(reports[n][1], os_name)]_vars

\* A's run has written a report and returned, B's run is still under way, and
\* the get_report call made after A's return answered with a file of B.
C13_Witness ==
    /\ report_result.called
    /\ "A" \in report_result.after
    /\ report_result.writer = Some("B")
    /\ attack["A"].pc = "returned"
    /\ attack["A"].wrote # None
    /\ attack["B"].pc = "finally"

====
